---- MODULE Spec2Model ----
(***************************************************************************)
(* Model of few-shot-face-classification: the nearest-neighbour classifier *)
(* (similarity.get_classes), the embedding cache                           *)
(* (main._load_or_create_embeddings, video_realtime.load_or_create_        *)
(* embeddings) and the pipeline driver (main.validate_labels,              *)
(* main.detect_and_export).                                                *)
(***************************************************************************)
EXTENDS Integers, Sequences, FiniteSets, TLC

VARIABLES
    \* ---- similarity.get_classes: arguments and outcome
    embs,            \* query embeddings (list of vectors)
    labeled_paths,   \* paths of the labeled faces (list of file names)
    labeled_embs,    \* embeddings of the labeled faces (same length)
    thr,             \* distance threshold
    classes,         \* returned list, or <<>> while not returned
    cpc,             \* "call" | "returned" | "ValueError"
    \* ---- the file system and the clock
    now,             \* current time, the mtime given to what is written now
    folder,          \* names of the entries of the labeled folder
    mtime,           \* st_mtime of each regular file of the labeled folder
    content,         \* the face each labeled file shows (what it embeds to)
    cache,           \* the cache artifact (cache_file)
    \* ---- _load_or_create_embeddings / load_or_create_embeddings
    touched,         \* files touched or modified since the last cache write
    res,             \* the last call and its outcome, NoRes when none stands
    \* ---- validate_labels and detect_and_export
    conflict,        \* Conflict.WARN | REMOVE | CRASH
    invalid,         \* labeled files that validate_face rejects
    folder0,         \* the labeled folder when the run started
    error_dir,       \* the quarantine folder: file name -> what the file is
    pc,              \* where the run is
    vpaths,          \* validate_labels: the paths being validated
    vi,              \* validate_labels: index of the next path
    examined,        \* validate_labels: the paths loaded and validated so far
    caught,          \* the exception validate_labels raised, NoExc when none
    dest,            \* the quarantine destination being chosen
    passes,          \* calls of validate_labels made by the run
    moves,           \* files the run has moved to error_dir
    refs,            \* the locals labeled_paths, labeled_embs, or Unbound
    chunks,          \* the chunks built
    pool,            \* size of the worker pool, 0 while there is none
    raw_images,      \* the images get_im_paths(raw_f) listed
    batch_size,      \* the batch_size the run was given
    \* ---- _embed_and_export and similarity.export
    faces,           \* the face embeddings detected in each raw image
    detect,          \* what detection and drawing do on each raw image
    draw_boxes,      \* whether export annotates the images
    write_f,         \* the output folder: its class folders and their files
    tasks            \* one call of _embed_and_export per chunk

cvars == <<embs, labeled_paths, labeled_embs, thr, classes, cpc>>
fvars == <<now, folder, mtime, content, cache>>
kvars == <<touched, res>>
dvars == <<conflict, invalid, folder0, error_dir, pc, vpaths, vi, examined, caught, dest,
           passes, moves, refs, chunks, pool, raw_images, batch_size>>
xvars == <<faces, detect, draw_boxes, write_f, tasks>>
vars == <<cvars, fvars, kvars, dvars, xvars>>

(***************************************************************************)
(* Bounds                                                                  *)
(***************************************************************************)
MaxQueries == 2      \* longest list of query embeddings
MaxRefs == 2         \* largest reference set
MaxClock == 2        \* the clock stops ticking at this time
MaxRaw == 3          \* most images in the raw folder
MaxBatch == 2        \* largest batch_size
MaxCpu == 4          \* largest cpu_count()

(***************************************************************************)
(* Values                                                                  *)
(***************************************************************************)
\* Python's None, the "no match" of the classifier.
None == "None"

\* No exception.
NoExc == [type |-> "none"]

\* Labeled file names follow <name>_<index>.<ext>; a name is modelled by the
\* pair <<name, index>> (the extension plays no role in any operation).
FileNames == {<<"alice", 1>>, <<"bob", 1>>, <<"none", 1>>}

\* The order in which a folder is listed.
FileOrder == <<(<<"alice", 1>>), (<<"bob", 1>>), (<<"none", 1>>)>>

\* Entries of the labeled folder that are no regular files (a subdirectory).
DirNames == {<<"subdir", 0>>}

\* Paths under which the labeled folder is passed to a call (the folder can
\* be moved between two calls, its files keeping their mtimes).
Locations == {"data/labeled", "mnt/faces"}

\* A path: the folder it is in and its file name.
Path(dir, name) == [dir |-> dir, name |-> name]

\* Embedding vectors the inputs are drawn from (integer points of the plane;
\* their pairwise squared distances are 0, 1, 2, 4 and 5).
Vectors == {<<0, 0>>, <<1, 0>>, <<0, 1>>, <<2, 0>>}

\* Thresholds the inputs are drawn from (thr is a float defaulting to 1).
Thresholds == {-1, 0, 1, 2}

SeqsUpTo(S, n) == UNION {[1..k -> S] : k \in 0..n}

(***************************************************************************)
(* utils.get_class: the identity of a labeled path, the part of the file   *)
(* name before the first '_'; the reserved name `none` is no identity.     *)
(***************************************************************************)
get_class(p) == IF p.name[1] = "none" THEN None ELSE p.name[1]

(***************************************************************************)
(* similarity.get_classes                                                  *)
(***************************************************************************)
\* Squared Euclidean distance.  sklearn's euclidean_distances returns the
\* square root of this number; the model keeps the square, which orders
\* distances the same way and is exact on integer vectors.
SqDist(x, y) ==
    LET d(i) == x[i] - y[i]
        RECURSIVE Sum(_)
        Sum(i) == IF i = 0 THEN 0 ELSE d(i) * d(i) + Sum(i - 1)
    IN Sum(Len(x))

\* dist = euclidean_distances(embs, labeled_embs): one row per query, one
\* column per reference.  The call raises ValueError when either list is
\* empty (check_array refuses an array that is not 2-dimensional).
euclidean_distances(X, Y) ==
    IF Len(X) = 0 \/ Len(Y) = 0
    THEN [raised |-> "ValueError", dist |-> <<>>]
    ELSE [raised |-> None,
          dist |-> [i \in 1..Len(X) |-> [j \in 1..Len(Y) |-> SqDist(X[i], Y[j])]]]

\* min(d) for a non-empty row d.
RowMin(d) == CHOOSE m \in {d[j] : j \in 1..Len(d)} : \A j \in 1..Len(d) : m <= d[j]

\* np.where(d == min(d))[0][0]: the first column holding the minimum.
FirstWhere(d, m) ==
    CHOOSE j \in 1..Len(d) : d[j] = m /\ \A k \in 1..(j - 1) : d[k] # m

\* min(d) <= thr, d holding squared distances: sqrt(m) <= t.
WithinStrict(m, t) == t > 0 /\ m < t * t
Within(m, t) == t >= 0 /\ m <= t * t

\* The loop body: the class of one row of the distance matrix.
ClassOfRowLast(d, lpaths, t) ==
    IF Within(RowMin(d), t)
    THEN get_class(lpaths[CHOOSE j \in 1..Len(d) :
                              d[j] = RowMin(d) /\ \A k \in (j + 1)..Len(d) : d[k] # RowMin(d)])
    ELSE None
ClassOfRow(d, lpaths, t) ==
    IF Within(RowMin(d), t)
    THEN get_class(lpaths[FirstWhere(d, RowMin(d))])
    ELSE None

get_classes(e, lpaths, lembs, t) ==
    LET r == euclidean_distances(e, lembs)
    IN  IF r.raised # None
        THEN [raised |-> r.raised, classes |-> <<>>]
        ELSE [raised |-> None,
              classes |-> [i \in 1..Len(e) |-> ClassOfRow(r.dist[i], lpaths, t)]]

(***************************************************************************)
(* embed.embed_folder: the paths of the regular files of the labeled       *)
(* folder, in listing order, and the embedding of each.                    *)
(***************************************************************************)
Listing(S) == SelectSeq(FileOrder, LAMBDA n : n \in S)

embed_folder(loc, entries, cont) ==
    LET names == Listing(entries \cap FileNames)
    IN  [paths |-> [i \in 1..Len(names) |-> Path(loc, names[i])],
         embs |-> [i \in 1..Len(names) |-> cont[names[i]]]]

(***************************************************************************)
(* The embedding cache: main._load_or_create_embeddings and                *)
(* video_realtime.load_or_create_embeddings                                *)
(***************************************************************************)
\* The cache artifact: absent, or a file with an mtime that either unpickles
\* to {"paths": relative paths, "embeddings": ...} or cannot be unpickled.
NoCache ==
    [exists |-> FALSE, mtime |-> 0, corrupt |-> FALSE, paths |-> <<>>, embeddings |-> <<>>]

\* What the environment lets the cache write do: succeed, fail before the
\* file is opened (mkdir or open raises), or fail in pickle.dump after open
\* has truncated the file.  (A call that writes nothing is taken with "ok".)
WriteOutcomes == {"ok", "fail_open", "fail_dump"}

MaxOf(S) == CHOOSE m \in S : \A x \in S : x <= m

\* _restore_paths: labeled_f / Path(p) for every stored relative path.
restore_paths_first_dir(raw_paths, loc) ==
    [i \in 1..Len(raw_paths) |-> Path("data/labeled", raw_paths[i])]
restore_paths(raw_paths, loc) ==
    [i \in 1..Len(raw_paths) |-> Path(loc, raw_paths[i])]

\* main.py 41-47: the cache is valid when it exists and is newer than every
\* regular file in the labeled folder.
cache_valid_main_geq(c, entries, mt) ==
    LET labeled_files == entries \cap FileNames
    IN  /\ c.exists
        /\ labeled_files # {}
        /\ c.mtime >= MaxOf({mt[f] : f \in labeled_files})
cache_valid_main(c, entries, mt) ==
    LET labeled_files == entries \cap FileNames
    IN  /\ c.exists
        /\ labeled_files # {}
        /\ c.mtime > MaxOf({mt[f] : f \in labeled_files})

\* video_realtime.py 38-45: the same check, but the listing is not filtered
\* by is_file before it is tested for emptiness, so max() over the regular
\* files raises ValueError when the folder holds entries and none is regular.
cache_valid_video(use_cache, c, entries, mt) ==
    IF ~(use_cache /\ c.exists) THEN [raised |-> None, valid |-> FALSE]
    ELSE IF entries = {} THEN [raised |-> None, valid |-> FALSE]
    ELSE IF entries \cap FileNames = {} THEN [raised |-> "ValueError", valid |-> FALSE]
    ELSE [raised |-> None,
          valid |-> c.mtime > MaxOf({mt[f] : f \in entries \cap FileNames})]

\* The try block that reads the cache: pickle.load raises on a file that
\* cannot be unpickled.
read_cache(c, loc) ==
    IF c.corrupt
    THEN [raised |-> "Exception", paths |-> <<>>, embs |-> <<>>]
    ELSE [raised |-> None, paths |-> restore_paths(c.paths, loc), embs |-> c.embeddings]

\* The try block that writes the cache (every exception is swallowed):
\* relative_to raises when a path is not under labeled_f, mkdir/open may
\* fail, and a failing dump leaves a truncated file behind.
write_cache(c, paths, embeddings, loc, w, t) ==
    IF w = "fail_open" \/ \E i \in 1..Len(paths) : paths[i].dir # loc
    THEN c
    ELSE IF w = "fail_dump"
    THEN [exists |-> TRUE, mtime |-> t, corrupt |-> TRUE, paths |-> <<>>, embeddings |-> <<>>]
    ELSE [exists |-> TRUE, mtime |-> t, corrupt |-> FALSE,
          paths |-> [i \in 1..Len(paths) |-> paths[i].name], embeddings |-> embeddings]

\* A call's outcome: what it returned or raised, whether it opened the cache
\* for reading, whether it tried to write it, and the cache it leaves.
Returned(source, paths, embeddings, read, wrote, c) ==
    [outcome |-> "returned", source |-> source, paths |-> paths, embs |-> embeddings,
     read |-> read, wrote |-> wrote, cache |-> c]
Raised(exc, read, c) ==
    [outcome |-> exc, source |-> None, paths |-> <<>>, embs |-> <<>>,
     read |-> read, wrote |-> FALSE, cache |-> c]

\* main._load_or_create_embeddings with a read failure left uncaught.
load_or_create_main_uncaught(loc, entries, mt, cont, c, use_cache, given, w, t) ==
    LET fresh == embed_folder(loc, entries, cont)
        valid == cache_valid_main(c, entries, mt)
        rd == read_cache(c, loc)
    IN  IF ~use_cache \/ ~given
        THEN Returned("computed", fresh.paths, fresh.embs, FALSE, FALSE, c)
        ELSE IF valid /\ rd.raised = None
        THEN Returned("cache", rd.paths, rd.embs, TRUE, FALSE, c)
        ELSE IF valid
        THEN Raised(rd.raised, TRUE, c)
        ELSE Returned("computed", fresh.paths, fresh.embs, valid, TRUE,
                      write_cache(c, fresh.paths, fresh.embs, loc, w, t))

\* main._load_or_create_embeddings (use_cache; given: cache_file is not None)
load_or_create_main(loc, entries, mt, cont, c, use_cache, given, w, t) ==
    LET fresh == embed_folder(loc, entries, cont)
        valid == cache_valid_main(c, entries, mt)
        rd == read_cache(c, loc)
    IN  IF ~use_cache \/ ~given
        THEN Returned("computed", fresh.paths, fresh.embs, FALSE, FALSE, c)
        ELSE IF valid /\ rd.raised = None
        THEN Returned("cache", rd.paths, rd.embs, TRUE, FALSE, c)
        ELSE Returned("computed", fresh.paths, fresh.embs, valid, TRUE,
                      write_cache(c, fresh.paths, fresh.embs, loc, w, t))

\* video_realtime.load_or_create_embeddings (cache_file is always given)
load_or_create_video(loc, entries, mt, cont, c, use_cache, w, t) ==
    LET fresh == embed_folder(loc, entries, cont)
        cv == cache_valid_video(use_cache, c, entries, mt)
        rd == read_cache(c, loc)
    IN  IF cv.raised # None
        THEN Raised(cv.raised, FALSE, c)
        ELSE IF cv.valid /\ rd.raised = None
        THEN Returned("cache", rd.paths, rd.embs, TRUE, FALSE, c)
        ELSE Returned("computed", fresh.paths, fresh.embs, cv.valid, TRUE,
                      write_cache(c, fresh.paths, fresh.embs, loc, w, t))

(***************************************************************************)
(* main.validate_labels and the parts of main.detect_and_export            *)
(***************************************************************************)
Conflicts == {"WARN", "REMOVE", "CRASH"}

\* The path InvalidImageException carries when it is built without one.
NonePath == Path("None", <<>>)

\* exceptions.InvalidImageException(path): the path is kept in self.path.
InvalidImageException(path) == [type |-> "InvalidImageException", path |-> path]

\* data.get_im_paths: the image files of a folder, in listing order.
get_im_paths(loc, entries) ==
    LET names == Listing(entries \cap FileNames)
    IN  [i \in 1..Len(names) |-> Path(loc, names[i])]

\* embed.validate_face(im, val_single=True): the image shows exactly one face.
validate_face(name, bad) == name \notin bad

\* main.py 117-125, the body of the validation loop for one path: what it
\* raises and whether it unlinks the file.
validate_one_pathless(c, path, bad) ==
    IF validate_face(path.name, bad) THEN [raise |-> NoExc, unlink |-> FALSE]
    ELSE IF c = "WARN" THEN [raise |-> NoExc, unlink |-> FALSE]
    ELSE IF c = "REMOVE" THEN [raise |-> NoExc, unlink |-> TRUE]
    ELSE [raise |-> InvalidImageException(NonePath), unlink |-> FALSE]
validate_one_unlink_any(c, path, bad) ==
    IF c = "REMOVE" THEN [raise |-> NoExc, unlink |-> TRUE]
    ELSE IF validate_face(path.name, bad) THEN [raise |-> NoExc, unlink |-> FALSE]
    ELSE IF c = "WARN" THEN [raise |-> NoExc, unlink |-> FALSE]
    ELSE [raise |-> InvalidImageException(path), unlink |-> FALSE]
validate_one(c, path, bad) ==
    IF validate_face(path.name, bad) THEN [raise |-> NoExc, unlink |-> FALSE]
    ELSE IF c = "WARN" THEN [raise |-> NoExc, unlink |-> FALSE]
    ELSE IF c = "REMOVE" THEN [raise |-> NoExc, unlink |-> TRUE]
    ELSE IF c = "CRASH" THEN [raise |-> InvalidImageException(path), unlink |-> FALSE]
    ELSE [raise |-> NoExc, unlink |-> FALSE]

\* main.py 167: dest.with_name(f"{dest.stem}_{getrandbits(16)}{dest.suffix}"),
\* the random number appended to the name.
with_name(d, r) == Append(d, r)

\* main.py 170: shutil.move(str(bad_path), dest), dest not existing.
copy_to(name, d, entries, edir) ==
    [folder |-> entries, error_dir |-> (d :> name) @@ edir]
move_onto_name(name, d, entries, edir) ==
    [folder |-> entries \ {name}, error_dir |-> (name :> name) @@ edir]
move(name, d, entries, edir) ==
    [folder |-> entries \ {name}, error_dir |-> (d :> name) @@ edir]

\* main.py 186-195: range(0, len(paths), batch_size) and paths[i:i + batch_size].
RangeStarts(n, step) == [k \in 1..((n + step - 1) \div step) |-> (k - 1) * step]
Slice(xs, i, j) == SubSeq(xs, i + 1, IF j < Len(xs) THEN j ELSE Len(xs))

(***************************************************************************)
(* main._embed_and_export and similarity.export                            *)
(***************************************************************************)
\* embed.embed_batch(paths): the embedding of every face detected in the
\* images, each with the path of its image (an image with several faces is
\* listed once per face, an image without a face not at all).
RECURSIVE embed_batch(_, _)
embed_batch(ps, fc) ==
    IF ps = <<>>
    THEN [paths |-> <<>>, embs |-> <<>>]
    ELSE LET rest == embed_batch(Tail(ps), fc)
             f == fc[Head(ps)]
         IN  [paths |-> [k \in 1..Len(f) |-> Head(ps)] \o rest.paths,
              embs |-> f \o rest.embs]

\* os.mkdir(write_f / cls): one system call.
os_mkdir(f, cls) ==
    IF ~f.exists THEN "FileNotFoundError"
    ELSE IF cls \in f.dirs THEN "FileExistsError"
    ELSE "created"

\* similarity.py 85: (write_f / cls).mkdir(parents=True, exist_ok=True).
\* Path.mkdir calls os.mkdir; on FileNotFoundError with parents it creates
\* the parents and tries again (next = "parents"); on FileExistsError it
\* returns when exist_ok is set and the path is a directory.
mkdir_not_exist_ok(f, cls, parents, exist_ok) ==
    LET r == os_mkdir(f, cls)
    IN  IF r = "created"
        THEN [raised |-> None, next |-> "made", f |-> [f EXCEPT !.dirs = @ \cup {cls}]]
        ELSE IF r = "FileNotFoundError" /\ parents
        THEN [raised |-> None, next |-> "parents", f |-> f]
        ELSE [raised |-> r, next |-> "raise", f |-> f]
mkdir(f, cls, parents, exist_ok) ==
    LET r == os_mkdir(f, cls)
    IN  IF r = "created"
        THEN [raised |-> None, next |-> "made", f |-> [f EXCEPT !.dirs = @ \cup {cls}]]
        ELSE IF r = "FileNotFoundError" /\ parents
        THEN [raised |-> None, next |-> "parents", f |-> f]
        ELSE IF r = "FileExistsError" /\ exist_ok
        THEN [raised |-> None, next |-> "made", f |-> f]
        ELSE [raised |-> r, next |-> "raise", f |-> f]

\* What detection and drawing can do on an image: find the boxes and draw
\* them, find no box, or raise.
Detections == {"boxes", "no boxes", "raises"}

\* similarity.py 88-127: what is written to output_path for one image, a
\* plain copy of the image or the image with the boxes drawn.  An exception
\* in the try block is caught and the image is copied.
export_one_uncaught(draw, det) ==
    IF ~draw THEN [raised |-> None, kind |-> "copy"]
    ELSE IF det = "raises" THEN [raised |-> "Exception", kind |-> "none"]
    ELSE IF det = "boxes" THEN [raised |-> None, kind |-> "annotated"]
    ELSE [raised |-> None, kind |-> "copy"]
export_one(draw, det) ==
    IF ~draw THEN [raised |-> None, kind |-> "copy"]
    ELSE IF det = "raises" THEN [raised |-> None, kind |-> "copy"]
    ELSE IF det = "boxes" THEN [raised |-> None, kind |-> "annotated"]
    ELSE [raised |-> None, kind |-> "copy"]

(***************************************************************************)
(* The classifier as a state machine: one call of get_classes on inputs    *)
(* drawn from the bounded sets.                                            *)
(***************************************************************************)
ClassifierIdle ==
    /\ embs = <<>>
    /\ labeled_paths = <<>>
    /\ labeled_embs = <<>>
    /\ thr = 1
    /\ classes = <<>>
    /\ cpc = "idle"

\* The labeled files of the cache's state machine.
CacheFiles == {<<"alice", 1>>, <<"bob", 1>>}

\* The faces labeled files can show.
Contents == {<<0, 0>>, <<1, 0>>}

FilesIdle ==
    /\ now = 0
    /\ folder = {}
    /\ mtime = [f \in FileNames |-> 0]
    /\ content = [f \in FileNames |-> <<0, 0>>]
    /\ cache = NoCache

NoRes == [variant |-> "none"]

CacheIdle ==
    /\ touched = {}
    /\ res = NoRes

Unbound == [bound |-> FALSE]

DriverIdle ==
    /\ conflict = "CRASH"
    /\ invalid = {}
    /\ folder0 = {}
    /\ error_dir = <<>>
    /\ pc = "idle"
    /\ vpaths = <<>>
    /\ vi = 1
    /\ examined = <<>>
    /\ caught = NoExc
    /\ dest = <<>>
    /\ passes = 0
    /\ moves = 0
    /\ refs = Unbound
    /\ chunks = <<>>
    /\ pool = 0
    /\ raw_images = <<>>
    /\ batch_size = 1

\* The output folder before anything is written: it may not exist yet.
NoFolder == [exists |-> FALSE, dirs |-> {}, files |-> <<>>]

ExportIdle ==
    /\ faces = <<>>
    /\ detect = <<>>
    /\ draw_boxes = TRUE
    /\ write_f = NoFolder
    /\ tasks = <<>>

InitClassifier ==
    /\ ExportIdle
    /\ FilesIdle
    /\ CacheIdle
    /\ DriverIdle
    /\ embs \in SeqsUpTo(Vectors, MaxQueries)
    /\ \E n \in 0..MaxRefs :
          /\ labeled_paths \in [1..n -> {Path("data/labeled", f) : f \in FileNames}]
          /\ labeled_embs \in [1..n -> Vectors]
    /\ thr \in Thresholds
    /\ classes = <<>>
    /\ cpc = "call"

GetClasses ==
    /\ cpc = "call"
    /\ LET r == get_classes(embs, labeled_paths, labeled_embs, thr)
       IN  /\ classes' = r.classes
           /\ cpc' = IF r.raised = None THEN "returned" ELSE r.raised
    /\ UNCHANGED <<embs, labeled_paths, labeled_embs, thr, fvars, kvars, dvars, xvars>>

NextClassifier == GetClasses

SpecClassifier == InitClassifier /\ [][NextClassifier]_vars

(***************************************************************************)
(* The cache as a state machine: the labeled folder is touched, modified   *)
(* and purged of files while time passes, and the two loaders are called   *)
(* with every combination of their arguments.                              *)
(***************************************************************************)
InitCache ==
    /\ ExportIdle
    /\ ClassifierIdle
    /\ now = 0
    /\ folder \in SUBSET (CacheFiles \cup DirNames)
    /\ mtime = [f \in FileNames |-> 0]
    /\ content = [f \in FileNames |-> <<0, 0>>]
    /\ cache = NoCache
    /\ touched = {}
    /\ res = NoRes
    /\ DriverIdle

\* Time passes.
Tick ==
    /\ now < MaxClock
    /\ now' = now + 1
    /\ res' = NoRes
    /\ UNCHANGED <<xvars, cvars, dvars, folder, mtime, content, cache, touched>>

\* A labeled file is touched (c is the face it showed) or modified.
Touch(f, c) ==
    /\ f \in folder \cap FileNames
    /\ mtime' = [mtime EXCEPT ![f] = now]
    /\ content' = [content EXCEPT ![f] = c]
    /\ touched' = touched \cup {f}
    /\ res' = NoRes
    /\ UNCHANGED <<xvars, cvars, dvars, now, folder, cache>>

\* A labeled file leaves the folder (path.unlink under Conflict.REMOVE, or
\* the move to error_data under Conflict.CRASH).
Delete(f) ==
    /\ f \in folder \cap FileNames
    /\ folder' = folder \ {f}
    /\ mtime' = [mtime EXCEPT ![f] = 0]
    /\ content' = [content EXCEPT ![f] = <<0, 0>>]
    /\ touched' = touched \ {f}
    /\ res' = NoRes
    /\ UNCHANGED <<xvars, cvars, dvars, now, cache>>

\* What a call leaves in res: its arguments, its outcome and the state it
\* ran in.
CallRecord(variant, loc, use_cache, given, r) ==
    [variant |-> variant, use_cache |-> use_cache, given |-> given,
     outcome |-> r.outcome, source |-> r.source, paths |-> r.paths, embs |-> r.embs,
     read |-> r.read, wrote |-> r.wrote, loc |-> loc,
     before |-> [cache |-> cache, folder |-> folder, mtime |-> mtime,
                 content |-> content, touched |-> touched],
     repeats |-> [yes |-> FALSE]]

\* The call's effect on the cache; a completed write starts a new cache.
AfterCall(r, w) ==
    /\ cache' = r.cache
    /\ touched' = IF r.wrote /\ w = "ok" THEN {} ELSE touched

\* The write outcomes to consider for a call: all of them when the call
\* gets to write the cache, and one when it does not.
OutcomesFor(r) == IF r.wrote THEN WriteOutcomes ELSE {"ok"}

\* _load_or_create_embeddings(labeled_f, batch_size, cache_file, use_cache)
LoadMain(use_cache, given) ==
    /\ \E w \in OutcomesFor(load_or_create_main("data/labeled", folder, mtime, content,
                                                cache, use_cache, given, "ok", now)) :
          LET r == load_or_create_main("data/labeled", folder, mtime, content, cache,
                                       use_cache, given, w, now)
          IN  /\ res' = CallRecord("main", "data/labeled", use_cache, given, r)
              /\ AfterCall(r, w)
    /\ UNCHANGED <<xvars, cvars, dvars, now, folder, mtime, content>>

\* load_or_create_embeddings(labeled_folder, cache_file, batch_size, use_cache)
LoadVideo(use_cache) ==
    /\ \E w \in OutcomesFor(load_or_create_video("data/labeled", folder, mtime, content,
                                                 cache, use_cache, "ok", now)) :
          LET r == load_or_create_video("data/labeled", folder, mtime, content, cache,
                                        use_cache, w, now)
          IN  /\ res' = CallRecord("video", "data/labeled", use_cache, TRUE, r)
              /\ AfterCall(r, w)
    /\ UNCHANGED <<xvars, cvars, dvars, now, folder, mtime, content>>

NextCache ==
    \/ Tick
    \/ \E f \in FileNames, c \in Contents : Touch(f, c)
    \/ \E f \in FileNames : Delete(f)
    \/ \E use_cache \in BOOLEAN, given \in BOOLEAN : LoadMain(use_cache, given)
    \/ \E use_cache \in BOOLEAN : LoadVideo(use_cache)

SpecCache == InitCache /\ [][NextCache]_vars

(***************************************************************************)
(* The cache round trip as a state machine: _load_or_create_embeddings is  *)
(* called again and again, the labeled folder being passed under either of *)
(* its locations, between changes to the folder.                           *)
(***************************************************************************)
InitRoundTrip ==
    /\ ExportIdle
    /\ ClassifierIdle
    /\ now = 0
    /\ folder \in SUBSET CacheFiles
    /\ mtime = [f \in FileNames |-> 0]
    /\ content = [f \in FileNames |-> <<0, 0>>]
    /\ cache = NoCache
    /\ touched = {}
    /\ res = NoRes
    /\ DriverIdle

\* The same call, res also telling whether it repeats the call before it:
\* same caching arguments, nothing having happened in between, the first
\* call having returned what res.repeats holds.
Reload(loc, use_cache, given) ==
    /\ \E w \in OutcomesFor(load_or_create_main(loc, folder, mtime, content, cache,
                                                use_cache, given, "ok", now)) :
          LET r == load_or_create_main(loc, folder, mtime, content, cache,
                                       use_cache, given, w, now)
          IN  /\ res' = [CallRecord("main", loc, use_cache, given, r) EXCEPT
                            !.repeats =
                                IF /\ res.variant = "main"
                                   /\ res.outcome = "returned"
                                   /\ res.use_cache = use_cache
                                   /\ res.given = given
                                THEN [yes |-> TRUE, loc |-> res.loc, source |-> res.source]
                                ELSE [yes |-> FALSE]]
              /\ AfterCall(r, w)
    /\ UNCHANGED <<xvars, cvars, dvars, now, folder, mtime, content>>

NextRoundTrip ==
    \/ Tick
    \/ \E f \in FileNames, c \in Contents : Touch(f, c)
    \/ \E f \in FileNames : Delete(f)
    \/ \E loc \in Locations, use_cache \in BOOLEAN, given \in BOOLEAN :
          Reload(loc, use_cache, given)

SpecRoundTrip == InitRoundTrip /\ [][NextRoundTrip]_vars

(***************************************************************************)
(* The pipeline driver as a state machine: one run of detect_and_export,   *)
(* validate_labels being stepped through path by path.                     *)
(***************************************************************************)
\* What a file of error_dir is when the run did not put it there.
Old == <<"old file">>

\* Names the quarantine folder may hold before the run.
OldNames == {<<"alice", 1>>, <<"bob", 1>>, <<"bob", 1, 0>>}

\* Values of getrandbits(16) the model draws.
RandBits == {0, 1}

\* The face each labeled file shows.
FaceOf == (<<"alice", 1>> :> <<0, 0>>) @@ (<<"bob", 1>> :> <<1, 0>>) @@ (<<"none", 1>> :> <<0, 1>>)

Init ==
    /\ ExportIdle
    /\ ClassifierIdle
    /\ CacheIdle
    /\ now = 1
    /\ folder \in SUBSET FileNames
    /\ mtime = [f \in FileNames |-> 0]
    /\ content = FaceOf
    /\ cache = NoCache
    /\ conflict \in Conflicts
    /\ invalid \in SUBSET folder
    /\ folder0 = folder
    /\ \E S \in SUBSET OldNames : error_dir = [d \in S |-> Old]
    /\ pc = "validate"
    /\ vpaths = <<>>
    /\ vi = 1
    /\ examined = <<>>
    /\ caught = NoExc
    /\ dest = <<>>
    /\ passes = 0
    /\ moves = 0
    /\ refs = Unbound
    /\ chunks = <<>>
    /\ pool = 0
    /\ raw_images = <<>>
    /\ batch_size = 1

\* validate_labels is called (main.py 157 or 172): it lists the folder.
ValidateCall ==
    /\ pc = "validate"
    /\ vpaths' = get_im_paths("data/labeled", folder)
    /\ vi' = 1
    /\ examined' = <<>>
    /\ passes' = passes + 1
    /\ pc' = "validating"
    /\ UNCHANGED <<xvars, cvars, fvars, kvars, conflict, invalid, folder0, error_dir, caught,
                   dest, moves, refs, chunks, pool, raw_images, batch_size>>

\* One turn of the validation loop (main.py 116-125).
ValidateStep ==
    /\ pc = "validating"
    /\ vi <= Len(vpaths)
    /\ LET e == validate_one(conflict, vpaths[vi], invalid)
       IN  /\ examined' = Append(examined, vpaths[vi])
           /\ IF e.raise # NoExc
              THEN /\ caught' = e.raise
                   /\ pc' = "raised"
                   /\ UNCHANGED <<vi, folder>>
              ELSE /\ folder' = IF e.unlink THEN folder \ {vpaths[vi].name} ELSE folder
                   /\ vi' = vi + 1
                   /\ UNCHANGED <<caught, pc>>
    /\ UNCHANGED <<xvars, cvars, kvars, now, mtime, content, cache, conflict, invalid, folder0,
                   error_dir, vpaths, dest, passes, moves, refs, chunks, pool,
                   raw_images, batch_size>>

\* The loop is over: validate_labels returns.
ValidateReturn ==
    /\ pc = "validating"
    /\ vi > Len(vpaths)
    /\ pc' = "validated"
    /\ UNCHANGED <<xvars, cvars, fvars, kvars, conflict, invalid, folder0, error_dir, vpaths, vi,
                   examined, caught, dest, passes, moves, refs, chunks, pool,
                   raw_images, batch_size>>

\* After a validation that returned: under CRASH the retry loop is left
\* (main.py 158) and the run goes on at line 183; otherwise the embeddings
\* are loaded next (main.py 175).
AfterValidate ==
    /\ pc = "validated"
    /\ pc' = IF conflict = "CRASH" THEN "chunk" ELSE "load"
    /\ UNCHANGED <<xvars, cvars, fvars, kvars, conflict, invalid, folder0, error_dir, vpaths, vi,
                   examined, caught, dest, passes, moves, refs, chunks, pool,
                   raw_images, batch_size>>

\* main.py 159-165: the handler of InvalidImageException.  Without a path
\* the exception is raised again; outside the CRASH branch nothing catches.
Except ==
    /\ pc = "raised"
    /\ IF conflict = "CRASH" /\ caught.path # NonePath
       THEN /\ dest' = caught.path.name
            /\ pc' = "dest"
       ELSE /\ pc' = "InvalidImageException"
            /\ UNCHANGED dest
    /\ UNCHANGED <<xvars, cvars, fvars, kvars, conflict, invalid, folder0, error_dir, vpaths, vi,
                   examined, caught, passes, moves, refs, chunks, pool,
                   raw_images, batch_size>>

\* main.py 166-167: the destination exists, another name is drawn.
Rename(r) ==
    /\ pc = "dest"
    /\ dest \in DOMAIN error_dir
    /\ dest' = with_name(dest, r)
    /\ UNCHANGED <<xvars, cvars, fvars, kvars, conflict, invalid, folder0, error_dir, pc, vpaths,
                   vi, examined, caught, passes, moves, refs, chunks, pool,
                   raw_images, batch_size>>

\* main.py 169-170: the file is moved and validation is run again.
Move ==
    /\ pc = "dest"
    /\ dest \notin DOMAIN error_dir
    /\ LET m == move(caught.path.name, dest, folder, error_dir)
       IN  /\ folder' = m.folder
           /\ error_dir' = m.error_dir
    /\ moves' = moves + 1
    /\ caught' = NoExc
    /\ pc' = "validate"
    /\ UNCHANGED <<xvars, cvars, kvars, now, mtime, content, cache, conflict, invalid, folder0,
                   vpaths, vi, examined, dest, passes, refs, chunks, pool,
                   raw_images, batch_size>>

\* main.py 175-180: labeled_paths, labeled_embs = _load_or_create_embeddings(...)
LoadEmbeddings(use_cache, given, w) ==
    /\ pc = "load"
    /\ LET r == load_or_create_main("data/labeled", folder, mtime, content, cache,
                                    use_cache, given, w, now)
       IN  /\ r.wrote \/ w = "ok"
           /\ refs' = [bound |-> TRUE, paths |-> r.paths, embs |-> r.embs]
           /\ cache' = r.cache
    /\ pc' = "chunk"
    /\ UNCHANGED <<xvars, cvars, kvars, now, folder, mtime, content, conflict, invalid, folder0,
                   error_dir, vpaths, vi, examined, caught, dest, passes, moves, chunks,
                   pool, raw_images, batch_size>>

\* main.py 183-195: the raw folder holds n images; the chunks are built.
\* Building a chunk reads the locals labeled_paths and labeled_embs, which
\* raises UnboundLocalError when they were never assigned.
BuildChunks(n, b) ==
    /\ pc = "chunk"
    /\ raw_images' = [i \in 1..n |-> i]
    /\ batch_size' = b
    /\ LET starts == RangeStarts(n, b)
       IN  IF Len(starts) > 0 /\ ~refs.bound
           THEN /\ pc' = "UnboundLocalError"
                /\ UNCHANGED chunks
           ELSE /\ chunks' = [k \in 1..Len(starts) |->
                                [paths |-> Slice(raw_images', starts[k], starts[k] + b),
                                 refs |-> refs]]
                /\ pc' = "pool"
    /\ UNCHANGED <<xvars, cvars, fvars, kvars, conflict, invalid, folder0, error_dir, vpaths, vi,
                   examined, caught, dest, passes, moves, refs, pool>>

\* main.py 198-199: Pool(cpu_count() - 2) and the dispatch of every chunk.
\* Pool raises ValueError for a number of processes below 1.
RunPool(cpu_count) ==
    /\ pc = "pool"
    /\ IF cpu_count - 2 < 1
       THEN /\ pc' = "ValueError"
            /\ UNCHANGED pool
       ELSE /\ pool' = cpu_count - 2
            /\ pc' = "done"
    /\ UNCHANGED <<xvars, cvars, fvars, kvars, conflict, invalid, folder0, error_dir, vpaths, vi,
                   examined, caught, dest, passes, moves, refs, chunks, raw_images, batch_size>>

Next ==
    \/ ValidateCall
    \/ ValidateStep
    \/ ValidateReturn
    \/ AfterValidate
    \/ Except
    \/ \E r \in RandBits : Rename(r)
    \/ Move
    \/ \E use_cache \in BOOLEAN, given \in BOOLEAN, w \in WriteOutcomes :
          LoadEmbeddings(use_cache, given, w)
    \/ \E n \in 0..MaxRaw, b \in 1..MaxBatch : BuildChunks(n, b)
    \/ \E cpu_count \in 1..MaxCpu : RunPool(cpu_count)

Spec == Init /\ [][Next]_vars

(***************************************************************************)
(* The export as a state machine: the chunks of the raw images are handed  *)
(* to the pool, and the calls of _embed_and_export, one per chunk, run     *)
(* interleaved in the worker processes, sharing the output folder.         *)
(***************************************************************************)
\* The raw images, in listing order.
RawNames == <<"img_1", "img_2">>
RawSet == {RawNames[i] : i \in 1..Len(RawNames)}

\* The faces an image can show: none, alice, bob, a stranger, alice and bob.
FaceLists == {<<>>, <<(<<0, 0>>)>>, <<(<<0, 1>>)>>, <<(<<2, 0>>)>>, <<(<<0, 0>>), (<<0, 1>>)>>}

\* The reference sets of the export: alice alone, or alice and bob.
ExportRefs ==
    {[paths |-> <<Path("data/labeled", <<"alice", 1>>)>>, embs |-> <<(<<0, 0>>)>>],
     [paths |-> <<Path("data/labeled", <<"alice", 1>>), Path("data/labeled", <<"bob", 1>>)>>,
      embs |-> <<(<<0, 0>>), (<<0, 1>>)>>]}

\* A call of _embed_and_export that has not started.
NewTask(ps) ==
    [chunk |-> ps, pc |-> "embed", paths |-> <<>>, embs |-> <<>>, classes |-> <<>>,
     i |-> 1, raced |-> FALSE]

InitExport ==
    /\ FilesIdle
    /\ CacheIdle
    /\ DriverIdle
    /\ embs = <<>>
    /\ classes = <<>>
    /\ cpc = "idle"
    /\ thr = 1
    /\ \E r \in ExportRefs : labeled_paths = r.paths /\ labeled_embs = r.embs
    /\ faces \in [RawSet -> FaceLists]
    /\ draw_boxes \in BOOLEAN
    /\ detect \in [RawSet -> Detections]
    /\ ~draw_boxes => detect = [n \in RawSet |-> "boxes"]
    /\ write_f \in {NoFolder, [NoFolder EXCEPT !.exists = TRUE]}
    /\ \E b \in 1..MaxBatch :
          LET starts == RangeStarts(Len(RawNames), b)
          IN  tasks = [k \in 1..Len(starts) |->
                          NewTask(Slice(RawNames, starts[k], starts[k] + b))]

\* main.py 210: paths, embs = embed_batch(paths)
EmbedBatch(k) ==
    /\ tasks[k].pc = "embed"
    /\ LET r == embed_batch(tasks[k].chunk, faces)
       IN  tasks' = [tasks EXCEPT ![k].paths = r.paths, ![k].embs = r.embs,
                                  ![k].pc = "classify"]
    /\ UNCHANGED <<cvars, fvars, kvars, dvars, faces, detect, draw_boxes, write_f>>

\* similarity.py 66-71: classes = get_classes(...)
Classify(k) ==
    /\ tasks[k].pc = "classify"
    /\ LET r == get_classes(tasks[k].embs, labeled_paths, labeled_embs, thr)
       IN  tasks' = [tasks EXCEPT ![k].classes = r.classes,
                                  ![k].pc = IF r.raised = None THEN "loop" ELSE r.raised]
    /\ UNCHANGED <<cvars, fvars, kvars, dvars, faces, detect, draw_boxes, write_f>>

\* similarity.py 79-82: the next (cls, path) pair; a pair without a class is
\* skipped.
LoopNext(k) ==
    /\ tasks[k].pc = "loop"
    /\ LET t == tasks[k]
       IN  tasks' = IF t.i > Len(t.classes) THEN [tasks EXCEPT ![k].pc = "done"]
                    ELSE IF t.classes[t.i] = None THEN [tasks EXCEPT ![k].i = t.i + 1]
                    ELSE [tasks EXCEPT ![k].pc = "mkdir"]
    /\ UNCHANGED <<cvars, fvars, kvars, dvars, faces, detect, draw_boxes, write_f>>

\* similarity.py 85: the class folder is created, at the first try or at the
\* one that follows the creation of the parents.
Mkdir(k) ==
    /\ tasks[k].pc \in {"mkdir", "mkdir_retry"}
    /\ LET t == tasks[k]
           m == mkdir(write_f, t.classes[t.i], t.pc = "mkdir", TRUE)
       IN  /\ write_f' = m.f
           /\ tasks' = [tasks EXCEPT
                           ![k].pc = IF m.raised # None THEN m.raised
                                     ELSE IF m.next = "parents" THEN "mkdir_parents"
                                     ELSE "write",
                           ![k].raced = t.raced \/ (/\ t.pc = "mkdir_retry"
                                                    /\ t.classes[t.i] \in write_f.dirs)]
    /\ UNCHANGED <<cvars, fvars, kvars, dvars, faces, detect, draw_boxes>>

\* The parents of the class folder are created (exist_ok=True).
MkdirParents(k) ==
    /\ tasks[k].pc = "mkdir_parents"
    /\ write_f' = [write_f EXCEPT !.exists = TRUE]
    /\ tasks' = [tasks EXCEPT ![k].pc = "mkdir_retry"]
    /\ UNCHANGED <<cvars, fvars, kvars, dvars, faces, detect, draw_boxes>>

\* similarity.py 86-127: the image is written to output_path.
Write(k) ==
    /\ tasks[k].pc = "write"
    /\ LET t == tasks[k]
           name == t.paths[t.i]
           e == export_one(draw_boxes, detect[name])
       IN  IF e.raised # None
           THEN /\ tasks' = [tasks EXCEPT ![k].pc = e.raised]
                /\ UNCHANGED write_f
           ELSE /\ write_f' = [write_f EXCEPT
                                  !.files = (<<t.classes[t.i], name>> :>
                                                [of |-> name, kind |-> e.kind]) @@ @]
                /\ tasks' = [tasks EXCEPT ![k].i = t.i + 1, ![k].pc = "loop"]
    /\ UNCHANGED <<cvars, fvars, kvars, dvars, faces, detect, draw_boxes>>

NextExport ==
    \/ \E k \in DOMAIN tasks : EmbedBatch(k)
    \/ \E k \in DOMAIN tasks : Classify(k)
    \/ \E k \in DOMAIN tasks : LoopNext(k)
    \/ \E k \in DOMAIN tasks : Mkdir(k)
    \/ \E k \in DOMAIN tasks : MkdirParents(k)
    \/ \E k \in DOMAIN tasks : Write(k)

SpecExport == InitExport /\ [][NextExport]_vars

(***************************************************************************)
(* Claims about the classifier (checked under SpecClassifier)              *)
(***************************************************************************)
\* The references nearest to query i, and whether reference j is within thr
\* of query i, stated on the inputs alone.
NearestRefs(i) ==
    {j \in 1..Len(labeled_embs) :
        \A k \in 1..Len(labeled_embs) :
            SqDist(embs[i], labeled_embs[j]) <= SqDist(embs[i], labeled_embs[k])}
RefWithinThr(i, j) ==
    thr >= 0 /\ SqDist(embs[i], labeled_embs[j]) <= thr * thr

C3_EmptyRefsNoMatch ==
    (cpc # "call" /\ Len(labeled_embs) = 0 /\ Len(embs) > 0 /\ thr >= 0) =>
        /\ cpc = "returned"
        /\ classes = [i \in 1..Len(embs) |-> None]

(***************************************************************************)
(* Claims about the embedding cache (checked under SpecCache; C6 under    *)
(* SpecRoundTrip)                                                          *)
(***************************************************************************)
IsCall == res.variant # "none"
CachingOn == res.use_cache /\ res.given

\* The regular files the call found in the labeled folder, and whether the
\* cache it found was strictly newer than each of them.
RegularBefore == res.before.folder \cap FileNames
FreshBefore ==
    /\ res.before.cache.exists
    /\ RegularBefore # {}
    /\ \A f \in RegularBefore : res.before.cache.mtime > res.before.mtime[f]

\* The call returned the embeddings of exactly the regular files that were in
\* the labeled folder, each once, under the folder's location.
FromFolder ==
    /\ res.outcome = "returned"
    /\ Len(res.paths) = Cardinality(RegularBefore)
    /\ Len(res.embs) = Len(res.paths)
    /\ \A i \in 1..Len(res.paths) :
          /\ res.paths[i].dir = res.loc
          /\ res.paths[i].name \in RegularBefore
          /\ res.embs[i] = res.before.content[res.paths[i].name]
          /\ \A j \in 1..Len(res.paths) : res.paths[j] = res.paths[i] => j = i

\* The call tried to write the cache and left no good cache of its result.
WriteFailed == res.wrote /\ (cache = res.before.cache \/ cache.corrupt)

\* C4 (the claim as stated; a cache that cannot be unpickled is C7's case):
\* with caching enabled, either loader returns, reuses a readable cache if
\* and only if it exists and is strictly newer than every regular file of
\* the labeled folder, and rebuilds without raising when the folder holds no
\* regular file.
C4_FreshnessRule ==
    (IsCall /\ CachingOn) =>
        /\ res.outcome = "returned"
        /\ (~res.before.cache.corrupt) => ((res.source = "cache") <=> FreshBefore)
        /\ (RegularBefore = {}) => (res.source = "computed")

\* C5: a call of _load_or_create_embeddings made while a file of the labeled
\* folder has been touched or modified since the last cache write recomputes
\* the embeddings from the folder and does not return the cache's data.
C5_TouchInvalidates ==
    (IsCall /\ res.variant = "main" /\ res.before.touched # {}) =>
        /\ res.source = "computed"
        /\ FromFolder

\* C5 witness: caching is on, the file was modified to show another face at
\* the very timestamp of a readable cache that holds its old embedding, and
\* the call returned the new one.
C5_Witness ==
    /\ IsCall /\ res.variant = "main" /\ CachingOn
    /\ res.before.cache.exists /\ ~res.before.cache.corrupt
    /\ \E f \in res.before.touched :
          /\ res.before.mtime[f] = res.before.cache.mtime
          /\ \E i \in 1..Len(res.before.cache.paths) :
                /\ res.before.cache.paths[i] = f
                /\ res.before.cache.embeddings[i] # res.before.content[f]
          /\ \E i \in 1..Len(res.paths) :
                /\ res.paths[i].name = f
                /\ res.embs[i] = res.before.content[f]
    /\ res.source = "computed"

\* A step that is a call of a loader.
LoadStep ==
    /\ res'.variant # "none"
    /\ UNCHANGED <<now, folder, mtime, content>>

C7_CacheNeverFails ==
    (IsCall /\ res.variant = "main") =>
        /\ res.outcome = "returned"
        /\ (CachingOn /\ ((FreshBefore /\ res.before.cache.corrupt) \/ WriteFailed))
              => (res.source = "computed" /\ FromFolder)

\* C7 witness: one call in which the fresh cache could not be unpickled and
\* the write of the recomputed set failed as well, and which returned the
\* folder's embeddings.
C7_Witness ==
    /\ IsCall /\ res.variant = "main" /\ CachingOn
    /\ FreshBefore /\ res.before.cache.corrupt
    /\ res.read /\ WriteFailed
    /\ res.outcome = "returned" /\ res.source = "computed"
    /\ Len(res.paths) > 0

\* C8 (the claim as stated): with use_cache false or no cache file given,
\* either loader recomputes from the folder, never reads the cache artifact
\* and leaves it as it was.
C8_NoCacheNoPersistence ==
    (IsCall /\ ~CachingOn) =>
        /\ res.outcome = "returned"
        /\ res.source = "computed"
        /\ FromFolder
        /\ ~res.read
        /\ cache = res.before.cache

(***************************************************************************)
(* Claims about validate_labels and detect_and_export (checked under Spec) *)
(***************************************************************************)
\* The run is past label validation.
ValidationOver == pc \in {"load", "chunk", "pool", "done", "UnboundLocalError", "ValueError"}

\* C1 (the claim as stated): for every policy, once label validation has
\* succeeded the run builds chunks and dispatches them only with the
\* reference set built: it is never at chunk building, at the pool or done
\* with labeled_paths and labeled_embs unassigned.
C1_RefsBeforeChunks ==
    (pc \in {"chunk", "pool", "done"}) => refs.bound

\* The invalid files the labeled folder held when the run started, the files
\* the run has put into error_dir, and the names of the paths under
\* validation.
InvalidAtStart == folder0 \cap invalid
Quarantined == {error_dir[d] : d \in DOMAIN error_dir} \ {Old}
ValidatedNames == {vpaths[i].name : i \in 1..Len(vpaths)}

\* C9: under CRASH, with k invalid files among the n labeled files, the
\* retry loop never makes more than k moves or k + 1 validation passes and
\* never lets the exception escape; when it is over it has made exactly k
\* moves and k + 1 passes, the labeled folder holds the valid files only,
\* and the k invalid files are in error_dir, each under a name of its own.
C9_QuarantineLoop ==
    (conflict = "CRASH") =>
        /\ moves <= Cardinality(InvalidAtStart)
        /\ passes <= Cardinality(InvalidAtStart) + 1
        /\ pc # "InvalidImageException"
        /\ (pc = "validated" \/ ValidationOver) =>
              /\ moves = Cardinality(InvalidAtStart)
              /\ passes = Cardinality(InvalidAtStart) + 1
              /\ folder \cap invalid = {}
              /\ folder = folder0 \ invalid
              /\ Quarantined = InvalidAtStart
              /\ Cardinality({d \in DOMAIN error_dir : error_dir[d] # Old})
                    = Cardinality(InvalidAtStart)

\* C9 witness: the loop is over for a folder of three files, two of them
\* invalid, after two moves, one of them under a name with a random suffix.
C9_Witness ==
    /\ conflict = "CRASH"
    /\ pc = "validated"
    /\ Cardinality(folder0) = 3
    /\ Cardinality(InvalidAtStart) = 2
    /\ moves = 2 /\ passes = 3
    /\ \E d \in DOMAIN error_dir : error_dir[d] # Old /\ Len(d) > 2

\* C10: under CRASH, validate_labels leaves the labeled folder as it found
\* it; when it raises, the exception is an InvalidImageException whose path
\* is the first invalid path in iteration order, and the paths examined are
\* exactly those up to it; when it returns, every path has been examined
\* and none is invalid.
C10_CrashStopsAtFirst ==
    (conflict = "CRASH" /\ pc \in {"validating", "raised", "validated"}) =>
        /\ folder = ValidatedNames
        /\ (pc = "raised") =>
              /\ caught.type = "InvalidImageException"
              /\ caught.path = vpaths[vi]
              /\ vpaths[vi].name \in invalid
              /\ \A i \in 1..(vi - 1) : vpaths[i].name \notin invalid
              /\ examined = SubSeq(vpaths, 1, vi)
        /\ (pc = "validated") =>
              /\ caught = NoExc
              /\ examined = vpaths
              /\ \A i \in 1..Len(vpaths) : vpaths[i].name \notin invalid

\* C10 witness: validate_labels has raised at the second of three paths, the
\* third, invalid as well, not having been examined.
C10_Witness ==
    /\ conflict = "CRASH"
    /\ pc = "raised"
    /\ Len(vpaths) = 3 /\ vi = 2
    /\ vpaths[3].name \in invalid
    /\ Len(examined) = 2
    /\ caught.path = vpaths[2]

\* C11: under WARN and REMOVE, validate_labels is called once, never raises,
\* examines the files of the labeled folder one after the other and returns
\* having examined every one of them; while it runs no valid file leaves the
\* folder, and when it has returned the folder is the original folder under
\* WARN and the original folder minus exactly the invalid files under REMOVE.
C11_WarnRemoveComplete ==
    (conflict \in {"WARN", "REMOVE"}) =>
        /\ pc \notin {"raised", "InvalidImageException"}
        /\ caught = NoExc
        /\ passes <= 1
        /\ (pc = "validating") =>
              /\ ValidatedNames = folder0
              /\ examined = SubSeq(vpaths, 1, vi - 1)
              /\ (folder0 \ invalid) \subseteq folder
        /\ (pc = "validated" \/ ValidationOver) =>
              /\ passes = 1
              /\ ValidatedNames = folder0
              /\ examined = vpaths
              /\ conflict = "WARN" => folder = folder0
              /\ conflict = "REMOVE" => folder = folder0 \ invalid

\* C11 witness: under REMOVE validate_labels has returned for a folder of
\* three files, two of them invalid; all three were examined and the valid
\* one alone is left.
C11_Witness ==
    /\ conflict = "REMOVE"
    /\ pc = "validated"
    /\ Cardinality(folder0) = 3
    /\ Cardinality(InvalidAtStart) = 2
    /\ Len(examined) = 3
    /\ folder = folder0 \ invalid
    /\ Cardinality(folder) = 1

\* C12 (the claim as stated): for every cpu_count() >= 1 the creation of the
\* worker pool succeeds and the pool has at least one worker.
C12_PoolFloor ==
    /\ pc # "ValueError"
    /\ (pc = "done") => pool >= 1

(***************************************************************************)
(* Further claims about the classifier (checked under SpecClassifier)      *)
(***************************************************************************)
\* The references that do not carry the reserved label `none`, and among
\* them those nearest to query i.
Candidates == {j \in 1..Len(labeled_paths) : labeled_paths[j].name[1] # "none"}
NearestCandidates(i) ==
    {j \in Candidates :
        \A k \in Candidates :
            SqDist(embs[i], labeled_embs[j]) <= SqDist(embs[i], labeled_embs[k])}

\* The smallest index of a non-empty set of indices.
FirstOf(S) == CHOOSE j \in S : \A k \in S : j <= k

\* C15 (the claim as stated): the `none` exemplars do not compete: each
\* result is the one the matching gives over the references that do not
\* carry the label `none` (the class of the first nearest of them when it is
\* within thr, None otherwise), and it is never the string `none`.
C15_NoneNeverCompetes ==
    (cpc = "returned" /\ Len(embs) > 0) =>
        \A i \in 1..Len(embs) :
            /\ classes[i] # "none"
            /\ classes[i] =
                   IF \E j \in Candidates : RefWithinThr(i, j)
                   THEN get_class(labeled_paths[FirstOf(NearestCandidates(i))])
                   ELSE None

\* C16: when get_classes returns and the minimum distance of a query is within
\* thr, the result for the query is the class of the minimum-distance
\* reference that comes first in the reference ordering.
C16_FirstOfTies ==
    (cpc = "returned" /\ Len(embs) > 0) =>
        \A i \in 1..Len(embs) :
            (\E j \in 1..Len(labeled_embs) : RefWithinThr(i, j))
                => classes[i] = get_class(labeled_paths[FirstOf(NearestRefs(i))])

\* C16 witness: two references of different identities are at the same
\* minimum distance, within thr, from a query, and the query was given the
\* identity of the first one.
C16_Witness ==
    /\ cpc = "returned"
    /\ Len(labeled_embs) = 2
    /\ \E i \in 1..Len(embs) :
          /\ NearestRefs(i) = {1, 2}
          /\ RefWithinThr(i, 1)
          /\ get_class(labeled_paths[1]) # None
          /\ get_class(labeled_paths[2]) # None
          /\ get_class(labeled_paths[1]) # get_class(labeled_paths[2])
          /\ classes[i] = get_class(labeled_paths[1])

\* The concatenation of the path lists of the chunks.
RECURSIVE ConcatChunks(_)
ConcatChunks(cs) ==
    IF cs = <<>> THEN <<>> ELSE cs[1].paths \o ConcatChunks(Tail(cs))

\* C17 (the claim as stated): for every list of raw images and batch_size,
\* the run gets past chunk building, and the chunks it has built are, in
\* order, consecutive pieces of the list: their concatenation is the list,
\* none is empty, every one but the last holds batch_size paths, and there
\* are ceil(n / batch_size) of them.
C17_ChunkPartition ==
    /\ pc # "UnboundLocalError"
    /\ (pc \in {"pool", "done", "ValueError"}) =>
          /\ ConcatChunks(chunks) = raw_images
          /\ \A k \in 1..Len(chunks) :
                /\ Len(chunks[k].paths) >= 1
                /\ k < Len(chunks) => Len(chunks[k].paths) = batch_size
          /\ Len(chunks) = (Len(raw_images) + batch_size - 1) \div batch_size

(***************************************************************************)
(* Further claims about the embedding cache (checked under SpecCache)      *)
(***************************************************************************)
\* C19 (the claim as stated): a reference set that
\* _load_or_create_embeddings returns from the cache has exactly one item
\* for each regular file that is in the labeled folder at the call, and none
\* for a file that has left the folder since the cache was written.
C19_CachedPathsCurrent ==
    (IsCall /\ res.variant = "main" /\ res.outcome = "returned" /\ res.source = "cache") =>
        /\ {res.paths[i].name : i \in 1..Len(res.paths)} = RegularBefore
        /\ Len(res.paths) = Cardinality(RegularBefore)

(***************************************************************************)
(* Further claims about detect_and_export (checked under Spec)             *)
(***************************************************************************)
\* C20: at every step of a run under CRASH, each file the labeled folder
\* held at the start is either still in the labeled folder or in error_dir
\* under exactly one name, never both and never neither; the files in
\* error_dir that the run put there are invalid ones; and no step removes or
\* changes a file that is in error_dir, so the files it held before the run,
\* also under the name of a moved file, keep their content.
C20_NoLossNoOverwrite ==
    /\ [](conflict = "CRASH" =>
            /\ folder \cup Quarantined = folder0
            /\ folder \cap Quarantined = {}
            /\ Quarantined \subseteq invalid
            /\ Cardinality({d \in DOMAIN error_dir : error_dir[d] # Old})
                  = Cardinality(Quarantined))
    /\ [][conflict = "CRASH" =>
            \A d \in DOMAIN error_dir :
                d \in DOMAIN error_dir' /\ error_dir'[d] = error_dir[d]]_vars

\* C20 witness: the loop is over, and a file it moved lies in error_dir under
\* a name with a random suffix next to the older file that has its name.
C20_Witness ==
    /\ conflict = "CRASH"
    /\ pc = "validated"
    /\ moves >= 1
    /\ \E d \in DOMAIN error_dir :
          /\ error_dir[d] # Old
          /\ d # error_dir[d]
          /\ error_dir[d] \in DOMAIN error_dir
          /\ error_dir[error_dir[d]] = Old

(***************************************************************************)
(* Claims about the export (checked under SpecExport)                      *)
(***************************************************************************)
\* The identities the classification gives for the faces of raw image n, the
\* class folders that hold a file with the image's name, and the (cls, path)
\* pairs a task is through with.
IdentitiesOf(n) ==
    IF faces[n] = <<>> THEN {}
    ELSE LET r == get_classes(faces[n], labeled_paths, labeled_embs, thr)
         IN  {r.classes[i] : i \in 1..Len(r.classes)} \ {None}
FoldersOf(n) == {key[1] : key \in {x \in DOMAIN write_f.files : x[2] = n}}
ExportOver == \A k \in DOMAIN tasks : tasks[k].pc = "done"
Exported(k) ==
    {j \in 1..Len(tasks[k].classes) : j < tasks[k].i /\ tasks[k].classes[j] # None}

\* C13 (the claim as stated): when every chunk has been exported, each raw
\* image whose classification yields an identity has a file of its name in
\* the folder of one identity it was given and in no other class folder, a
\* plain copy of the image when draw_boxes is false; and an image whose
\* classification yields no identity has no file in any class folder.
C13_ExportPlacement ==
    ExportOver =>
        \A n \in RawSet :
            /\ IdentitiesOf(n) = {} => FoldersOf(n) = {}
            /\ IdentitiesOf(n) # {} => \E c \in IdentitiesOf(n) : FoldersOf(n) = {c}
            /\ \A c \in FoldersOf(n) :
                  /\ write_f.files[<<c, n>>].of = n
                  /\ ~draw_boxes => write_f.files[<<c, n>>].kind = "copy"

\* C14: with draw_boxes set, no call of export ends in the exception of a
\* failed detection or drawing; every (cls, path) pair with a class that a
\* call is through with has its file in the class folder, a plain copy of
\* the image when detection or drawing raised on it; and a call that is past
\* classification goes through every pair of its chunk.
C14_AnnotationFallback ==
    draw_boxes =>
        \A k \in DOMAIN tasks :
            /\ tasks[k].pc # "Exception"
            /\ \A j \in Exported(k) :
                  /\ <<tasks[k].classes[j], tasks[k].paths[j]>> \in DOMAIN write_f.files
                  /\ detect[tasks[k].paths[j]] = "raises" =>
                        write_f.files[<<tasks[k].classes[j], tasks[k].paths[j]>>]
                            = [of |-> tasks[k].paths[j], kind |-> "copy"]
            /\ tasks[k].pc = "done" =>
                  Exported(k) = {j \in 1..Len(tasks[k].classes) : tasks[k].classes[j] # None}

\* C14 witness: one call has exported a chunk of two images with draw_boxes
\* set: drawing raised on the first, which is in its class folder as a plain
\* copy, and the second is in its class folder with its boxes drawn.
C14_Witness ==
    /\ draw_boxes
    /\ \E k \in DOMAIN tasks :
          /\ tasks[k].pc = "done"
          /\ tasks[k].chunk = RawNames
          /\ detect["img_1"] = "raises"
          /\ \E c \in FoldersOf("img_1") : write_f.files[<<c, "img_1">>].kind = "copy"
          /\ \E c \in FoldersOf("img_2") : write_f.files[<<c, "img_2">>].kind = "annotated"

\* C18: whatever the interleaving of the calls of export, the creation of a
\* class folder raises in none of them, and every image a call has exported
\* is in its class folder, next to the images the other calls put there.
C18_MkdirRace ==
    \A k \in DOMAIN tasks :
        /\ tasks[k].pc \notin {"FileExistsError", "FileNotFoundError"}
        /\ tasks[k].pc = "write" => tasks[k].classes[tasks[k].i] \in write_f.dirs
        /\ \A j \in Exported(k) :
              /\ tasks[k].classes[j] \in write_f.dirs
              /\ <<tasks[k].classes[j], tasks[k].paths[j]>> \in DOMAIN write_f.files

\* C18 witness: two calls have exported an image each into the same class
\* folder; one of them found the folder missing at its first try and made by
\* the other call at its second; both images are in the folder.
C18_Witness ==
    /\ Len(tasks) = 2
    /\ ExportOver
    /\ \E k \in DOMAIN tasks : tasks[k].raced
    /\ \E c \in write_f.dirs :
          /\ <<c, "img_1">> \in DOMAIN write_f.files
          /\ <<c, "img_2">> \in DOMAIN write_f.files

====
